---- MODULE Spec2Model ----
(***************************************************************************)
(* State-machine model of updater.py (MTA server updater): platform        *)
(* resolution, listing resolution, staging, download, extraction, install, *)
(* update log and staging teardown, over an explicit filesystem.           *)
(*                                                                         *)
(* Paths are sequences of names relative to server_folder; the filesystem  *)
(* is a function from paths to nodes.  File content is a sequence of       *)
(* strings (the lines of the file).                                        *)
(***************************************************************************)
EXTENDS Integers, Sequences, FiniteSets, TLC

VARIABLES
    pc,          \* position of the script: the next stage to run, or "halted"
    key,         \* <<cpu_arch, os_name, cpu_bits>> of the host
    profile,     \* BUILD_STRING, EXEC_FILE_NAME, SERVER_BINARIES_LOCATION
    env,         \* inputs of the run: arguments, answers, remote responses
    fs,          \* the filesystem below server_folder
    url,         \* value returned by fetch_exe_url (split at '/')
    downloaded_file, \* value returned by download_file (a path)
    exitCode,    \* process exit code once halted, -1 while running
    fault,       \* the exception or exit that ended the run, "" if none
    failedStage, \* the stage that ended the run, "" if none
    stagesRun,   \* history: the stages entered so far, in order
    hist         \* history: filesystem snapshots taken at stage boundaries

vars == <<pc, key, profile, env, fs, url, downloaded_file, exitCode, fault,
          failedStage, stagesRun, hist>>

-----------------------------------------------------------------------------
(* Bounds of the model *)

MaxRows == 2        \* rows per builds table in the enumerated listing documents
MaxLinks == 1       \* links per row in the enumerated listing documents
MaxLogLines == 1    \* lines of updates.log before the run

-----------------------------------------------------------------------------
(* Sequence helpers *)

Last(s) == s[Len(s)]
Front(s) == SubSeq(s, 1, Len(s) - 1)
IsPrefix(p, q) == Len(p) <= Len(q) /\ SubSeq(q, 1, Len(p)) = p
IsStrictPrefix(p, q) == Len(p) < Len(q) /\ SubSeq(q, 1, Len(p)) = p
Range(s) == {s[i] : i \in 1..Len(s)}

\* all orderings of a finite set, as sequences without repetition
Orderings(S) ==
    {s \in [1..Cardinality(S) -> S] : \A i, j \in 1..Cardinality(S) : i # j => s[i] # s[j]}

-----------------------------------------------------------------------------
(* Filesystem primitives (os / os.path / shutil) *)

FileNode(d) == [kind |-> "file", data |-> d]
DirNode == [kind |-> "dir", data |-> <<>>]

\* os.path.exists
Exists(f, p) == p \in DOMAIN f
\* os.path.isdir
IsDir(f, p) == p \in DOMAIN f /\ f[p].kind = "dir"
IsFile(f, p) == p \in DOMAIN f /\ f[p].kind = "file"

\* os.listdir(p): the names directly below p
ListDir(f, p) == {q[Len(p) + 1] : q \in {r \in DOMAIN f : Len(r) = Len(p) + 1 /\ IsPrefix(p, r)}}

\* every path at or below p
Subtree(f, p) == {q \in DOMAIN f : IsPrefix(p, q)}

\* the function f without the paths in S
Without(f, S) == [q \in DOMAIN f \ S |-> f[q]]

\* os.makedirs(p): p and every missing ancestor become directories
\* (the caller has checked that p does not exist)
MakeDirsBlocked(f, p) == \E i \in 0..Len(p) : IsFile(f, SubSeq(p, 1, i))
MakeDirs(f, p) ==
    [q \in DOMAIN f \cup {SubSeq(p, 1, i) : i \in 0..Len(p)} |->
        IF q \in DOMAIN f THEN f[q] ELSE DirNode]

\* shutil.rmtree(p)
RmTree(f, p) == Without(f, Subtree(f, p))

\* os.remove(p) on a file
Remove(f, p) == Without(f, {p})

\* writing a file at p (open(p, 'wb') / the destination of a copy)
WriteBlocked(f, p) == Len(p) = 0 \/ ~IsDir(f, Front(p)) \/ IsDir(f, p)
WriteFile(f, p, d) == [q \in DOMAIN f \cup {p} |-> IF q = p THEN FileNode(d) ELSE f[q]]

\* shutil.copy2(src, dst): a directory dst receives the file under src's name
CopyDest(f, src, dst) == IF IsDir(f, dst) THEN dst \o <<Last(src)>> ELSE dst
CopyBlocked(f, src, dst) == ~IsFile(f, src) \/ WriteBlocked(f, CopyDest(f, src, dst))
Copy2(f, src, dst) == WriteFile(f, CopyDest(f, src, dst), f[src].data)

\* moving the subtree at src to dst
MoveTree(f, src, dst) ==
    LET kept == Without(f, Subtree(f, src) \cup Subtree(f, dst))
        moved == {dst \o SubSeq(q, Len(src) + 1, Len(q)) : q \in Subtree(f, src)}
    IN  [q \in DOMAIN kept \cup moved |->
            IF q \in moved
            THEN f[src \o SubSeq(q, Len(dst) + 1, Len(q))]
            ELSE kept[q]]

\* os.rename(src, dst).  POSIX replaces an existing file by a file and an
\* existing empty directory by a directory; Windows refuses every existing
\* destination.  Renaming a path to itself does nothing.
RenameError(f, src, dst, os) ==
    IF ~Exists(f, src) THEN "FileNotFoundError"
    ELSE IF src = dst THEN ""
    ELSE IF ~Exists(f, dst) THEN ""
    ELSE IF os = "Windows" THEN "FileExistsError"
    ELSE IF IsDir(f, src) /\ IsFile(f, dst) THEN "NotADirectoryError"
    ELSE IF IsFile(f, src) /\ IsDir(f, dst) THEN "IsADirectoryError"
    ELSE IF IsDir(f, src) /\ Subtree(f, dst) # {dst} THEN "OSError"
    ELSE ""
Rename(f, src, dst) == IF src = dst THEN f ELSE MoveTree(f, src, dst)

-----------------------------------------------------------------------------
(* Outcome of a call: a normal return, exit(code), or a raised exception *)

Ok(f, v) == [kind |-> "ok", fs |-> f, val |-> v, code |-> 0, exc |-> ""]
Exit(f, c) == [kind |-> "exit", fs |-> f, val |-> <<>>, code |-> c, exc |-> "SystemExit"]
Raise(f, e) == [kind |-> "raise", fs |-> f, val |-> <<>>, code |-> 0, exc |-> e]

-----------------------------------------------------------------------------
(* Platform matrix *)

Archs == {"arm", "x86"}
OsNames == {"Windows", "Linux"}
Bits == {"64", "32"}
Keys == Archs \X OsNames \X Bits

\* Python's False is written "", which `not` treats alike
BUILD_STRINGS ==
    [k \in Keys |->
        CASE k = <<"arm", "Windows", "64">> -> "Windows arm64 server"
          [] k = <<"arm", "Windows", "32">> -> ""
          [] k = <<"arm", "Linux", "64">> -> "Linux arm64 server"
          [] k = <<"arm", "Linux", "32">> -> "Linux arm server"
          [] k = <<"x86", "Windows", "64">> -> "Windows 64 bit server"
          [] k = <<"x86", "Windows", "32">> -> "Windows nightly installer (Win10+)"
          [] k = <<"x86", "Linux", "64">> -> "Linux 64 bit server"
          [] k = <<"x86", "Linux", "32">> -> "Linux 32 bit server"]

EXEC_FILE_NAMES ==
    [k \in Keys \ {<<"arm", "Windows", "32">>} |->
        CASE k = <<"arm", "Windows", "64">> -> "MTA Server ARM64.exe"
          [] k = <<"arm", "Linux", "64">> -> "mta-server-arm64"
          [] k = <<"arm", "Linux", "32">> -> "mta-server-arm"
          [] k = <<"x86", "Windows", "64">> -> "MTA Server64.exe"
          [] k = <<"x86", "Windows", "32">> -> "MTA Server.exe"
          [] k = <<"x86", "Linux", "64">> -> "mta-server64"
          [] k = <<"x86", "Linux", "32">> -> "mta-server"]

SERVER_BINARIES_LOCATIONS ==
    [k \in Keys \ {<<"arm", "Windows", "32">>} |->
        CASE k = <<"arm", "Windows", "64">> -> "arm64"
          [] k = <<"arm", "Linux", "64">> -> "arm64"
          [] k = <<"arm", "Linux", "32">> -> "arm"
          [] k = <<"x86", "Windows", "64">> -> "x64"
          [] k = <<"x86", "Windows", "32">> -> "./"
          [] k = <<"x86", "Linux", "64">> -> "x64"
          [] k = <<"x86", "Linux", "32">> -> "./"]

NoProfile == [BUILD_STRING |-> "", EXEC_FILE_NAME |-> "", SERVER_BINARIES_LOCATION |-> ""]

\* the three module-level lookups after BUILD_STRING is accepted
LookupProfile(k) ==
    IF k \notin DOMAIN EXEC_FILE_NAMES THEN Raise(<<>>, "KeyError")
    ELSE IF k \notin DOMAIN SERVER_BINARIES_LOCATIONS THEN Raise(<<>>, "KeyError")
    ELSE Ok(<<>>, [BUILD_STRING |-> BUILD_STRINGS[k],
                   EXEC_FILE_NAME |-> EXEC_FILE_NAMES[k],
                   SERVER_BINARIES_LOCATION |-> SERVER_BINARIES_LOCATIONS[k]])

\* the mutant looks up the executable name before BUILD_STRING is tested
ResolveLookupFirst(k) ==
    IF k \notin DOMAIN EXEC_FILE_NAMES THEN Raise(<<>>, "KeyError")
    ELSE IF BUILD_STRINGS[k] = "" THEN Exit(<<>>, 1)
    ELSE LookupProfile(k)

\* module level, lines 51-104: BUILD_STRING is looked up and tested first
Resolve(k) ==
    IF BUILD_STRINGS[k] = "" THEN Exit(<<>>, 1)
    ELSE LookupProfile(k)

-----------------------------------------------------------------------------
(* Names and their suffixes (str.endswith over the names of the model) *)

Digits == <<"1", "2", "3", "4">>
\* hrefs of the enumerated listing documents: row i, link j
BuildHref(i, j) == "build" \o Digits[i] \o Digits[j] \o ".tar.gz"
TarNames == {BuildHref(i, j) : i \in 1..Len(Digits), j \in 1..Len(Digits)}
               \cup {"mtasa-linux.tar.gz", "other-linux.tar.gz", "old-linux.tar.gz"}
ExeNames == {"mtasa-setup.exe", "MTA Server ARM64.exe", "MTA Server64.exe", "MTA Server.exe"}
SoNames == {"a.so", "c.so"}
DllNames == {"b.dll"}

NameSuffix(name) ==
    IF name \in TarNames THEN ".tar.gz"
    ELSE IF name \in ExeNames THEN ".exe"
    ELSE IF name \in SoNames THEN ".so"
    ELSE IF name \in DllNames THEN ".dll"
    ELSE ""
EndsWith(name, suffix) == NameSuffix(name) = suffix

-----------------------------------------------------------------------------
(* Listing resolution: fetch_exe_url *)

\* a string split at '/': "https://nightly.multitheftauto.com/"
nightly_url == <<"https:", "", "nightly.multitheftauto.com", "">>
\* f"{a}{b}" on strings split at '/'
StrCat(a, b) == Front(a) \o <<Last(a) \o b[1]>> \o Tail(b)
\* url.split('/')[-1]
file_from_url(u) == Last(u)

None == "None"
Hidden == "display: none;"
OtherStyle == "font-weight: bold;"
NoHref == <<>>

\* the document in document order: cells and tables; a row carries its class,
\* its style attribute (None when absent) and the href of each of its links
Cell(text) == [tag |-> "td", text |-> text, rows |-> <<>>]
Table(rows) == [tag |-> "table", text |-> "", rows |-> rows]
Row(class, style, links) == [class |-> class, style |-> style, links |-> links]

\* index of the first TRUE of a sequence of booleans, 0 if none: find returns
\* the first match in document order, or None
FirstIndex(matches) ==
    IF \E i \in 1..Len(matches) : matches[i]
    THEN CHOOSE i \in 1..Len(matches) : matches[i] /\ \A j \in 1..(i - 1) : ~matches[j]
    ELSE 0

\* soup.find('td', string=BUILD_STRING)
FindTd(doc, label) ==
    FirstIndex([i \in 1..Len(doc) |-> doc[i].tag = "td" /\ doc[i].text = label])
\* td.find_next('table')
FindNextTable(doc, td) ==
    LET rest == SubSeq(doc, td + 1, Len(doc))
        i == FirstIndex([j \in 1..Len(rest) |-> rest[j].tag = "table"])
    IN  IF i = 0 THEN 0 ELSE td + i
\* table.find('tr', class_='file', style=lambda x: x is None)
FindTr(rows) ==
    FirstIndex([i \in 1..Len(rows) |-> rows[i].class = "file" /\ rows[i].style = None])

\* lines 129-145, on the parsed response content
ResolveListing(doc, label) ==
    LET td == FindTd(doc, label) IN
    IF td = 0 THEN Raise(<<>>, "AttributeError") ELSE
    LET table == FindNextTable(doc, td) IN
    IF table = 0 THEN Raise(<<>>, "AttributeError") ELSE
    LET tr == FindTr(doc[table].rows) IN
    IF tr = 0 THEN Raise(<<>>, "AttributeError") ELSE
    LET links == doc[table].rows[tr].links IN
    IF links = <<>> THEN Raise(<<>>, "TypeError") ELSE
    IF links[1] = NoHref THEN Raise(<<>>, "KeyError") ELSE
    Ok(<<>>, StrCat(nightly_url, links[1]))

\* lines 122-145; response is what requests.get returns or raises
fetch_exe_url(response, label) ==
    IF response.error THEN Raise(<<>>, "ConnectionError")
    ELSE IF response.status_code # 200 THEN Exit(<<>>, 1)
    ELSE ResolveListing(response.content, label)

-----------------------------------------------------------------------------
(* Archives: what the downloaded file holds, as a tree of paths *)

\* os.path.join(folder, SERVER_BINARIES_LOCATION): './' names the folder itself
LocationPath(location) == IF location = "./" THEN <<>> ELSE <<location>>

\* a tree from its files: every ancestor of a file is a directory
TreeOf(files) ==
    LET dirs == UNION {{SubSeq(q, 1, i) : i \in 1..(Len(q) - 1)} : q \in DOMAIN files}
    IN  [q \in DOMAIN files \cup dirs |->
            IF q \in DOMAIN files THEN FileNode(files[q]) ELSE DirNode]

\* the release tree of a build below its top directory
ReleaseFiles(top, prof, withExe) ==
    LET lib == top \o LocationPath(prof.SERVER_BINARIES_LOCATION)
        libs == (lib \o <<"a.so">>) :> <<"new a.so">>
                @@ (lib \o <<"sub", "b.dll">>) :> <<"new b.dll">>
                @@ (lib \o <<"notes.txt">>) :> <<"new notes">>
                @@ (top \o <<"mods", "c.so">>) :> <<"new c.so">>
    IN  IF withExe
        THEN libs @@ (top \o <<prof.EXEC_FILE_NAME>>) :> <<"new executable">>
        ELSE libs

Bodies == {"full", "noexe", "twodirs", "corrupt"}

\* the content of a downloaded file, by its name and body; a tarball holds one
\* top directory named after the build, an installer holds server/ among others
ArchiveTree(name, body, prof) ==
    IF EndsWith(name, ".tar.gz")
    THEN TreeOf(ReleaseFiles(<<"buildXYZ">>, prof, body # "noexe")
                @@ (IF body = "twodirs" THEN <<"docs", "notes.txt">> :> <<"docs">>
                    ELSE <<>>))
    ELSE TreeOf(ReleaseFiles(<<"server">>, prof, body # "noexe")
                @@ <<"MTA", "b.dll">> :> <<"client b.dll">>)

\* extracting tree below dest: directories merge, files are overwritten,
\* a file cannot replace a directory nor a directory a file
ExtractBlocked(f, dest, tree) ==
    \E q \in DOMAIN tree : Exists(f, dest \o q) /\ f[dest \o q].kind # tree[q].kind
ExtractInto(f, dest, tree) ==
    LET new == {dest \o q : q \in DOMAIN tree}
    IN  [p \in DOMAIN f \cup new |->
            IF p \in new THEN tree[SubSeq(p, Len(dest) + 1, Len(p))] ELSE f[p]]

-----------------------------------------------------------------------------
(* Staging: prepare_updateinfo_folder, clear_folder, delete_folder *)

server_folder == <<>>

\* lines 147-151
prepare_updateinfo_folder(f, folder) ==
    LET updateinfo_folder == folder \o <<"updateinfo">> IN
    IF Exists(f, updateinfo_folder) THEN Ok(f, updateinfo_folder)
    ELSE IF MakeDirsBlocked(f, updateinfo_folder) THEN Raise(f, "NotADirectoryError")
    ELSE Ok(MakeDirs(f, updateinfo_folder), updateinfo_folder)

\* lines 218-222: every file below folder is removed, directories stay
clear_folder(f, folder) ==
    IF IsDir(f, folder)
    THEN Ok(Without(f, {q \in Subtree(f, folder) : IsFile(f, q)}), <<>>)
    ELSE Ok(f, <<>>)

\* lines 214-216
delete_folder(f, folder) ==
    IF IsDir(f, folder) THEN Ok(RmTree(f, folder), <<>>) ELSE Ok(f, <<>>)

-----------------------------------------------------------------------------
(* download_file, lines 153-160 *)

download_file(f, u, dest_folder, response) ==
    LET local_filename == dest_folder \o <<file_from_url(u)>> IN
    IF response.error THEN Raise(f, "ConnectionError")
    ELSE IF response.status_code # 200 THEN Raise(f, "HTTPError")
    ELSE IF WriteBlocked(f, local_filename) THEN Raise(f, "OSError")
    ELSE IF response.truncated
         THEN Raise(WriteFile(f, local_filename, <<"partial">>), "ChunkedEncodingError")
    ELSE Ok(WriteFile(f, local_filename, <<response.body>>), local_filename)

-----------------------------------------------------------------------------
(* extract_files, lines 162-180 *)

\* lines 165-170: 7z x file_path server/* -o dest_folder -y
ExtractInstaller(f, file_path, dest_folder, prof, has7z) ==
    LET all == ArchiveTree(Last(file_path), f[file_path].data[1], prof)
        tree == [q \in {r \in DOMAIN all : IsPrefix(<<"server">>, r)} |-> all[q]]
    IN  IF ~has7z THEN Exit(f, 1)
        ELSE IF f[file_path].data[1] \notin Bodies \ {"corrupt"}
             THEN Raise(f, "CalledProcessError")
        ELSE IF ExtractBlocked(f, dest_folder, tree) THEN Raise(f, "CalledProcessError")
        ELSE Ok(ExtractInto(f, dest_folder, tree), <<>>)

\* lines 173-177; first is the name os.listdir(dest_folder)[0] returns
ExtractTarball(f, file_path, dest_folder, prof, os, first) ==
    LET tree == ArchiveTree(Last(file_path), f[file_path].data[1], prof) IN
    IF f[file_path].data[1] \notin Bodies \ {"corrupt"} THEN Raise(f, "ReadError")
    ELSE IF ExtractBlocked(f, dest_folder, tree) THEN Raise(f, "OSError")
    ELSE LET f1 == ExtractInto(f, dest_folder, tree)
             extracted_folder == dest_folder \o <<first>>
             target == dest_folder \o <<"server">>
             err == RenameError(f1, extracted_folder, target, os)
         IN  IF err # "" THEN Raise(f1, err)
             ELSE Ok(Rename(f1, extracted_folder, target), <<>>)

\* the names os.listdir(dest_folder)[0] can be once the tarball is extracted
\* (the order of os.listdir is arbitrary)
FirstListed(f, file_path, dest_folder, prof) ==
    LET tree == ArchiveTree(Last(file_path), f[file_path].data[1], prof) IN
    IF f[file_path].data[1] \in Bodies \ {"corrupt"} /\ ~ExtractBlocked(f, dest_folder, tree)
    THEN ListDir(ExtractInto(f, dest_folder, tree), dest_folder)
    ELSE ListDir(f, dest_folder)

extract_files(f, file_path, dest_folder, prof, os, has7z, first) ==
    IF EndsWith(Last(file_path), ".exe")
    THEN ExtractInstaller(f, file_path, dest_folder, prof, has7z)
    ELSE IF EndsWith(Last(file_path), ".tar.gz")
    THEN ExtractTarball(f, file_path, dest_folder, prof, os, first)
    ELSE Exit(f, 1)

-----------------------------------------------------------------------------
(* update_server, lines 182-204 *)

\* the files os.walk(top) visits: none when top is not a directory
WalkFiles(f, top) ==
    IF IsDir(f, top) THEN {q \in Subtree(f, top) : IsFile(f, q)} ELSE {}

\* os.walk is top-down: the files of a directory come before the files of the
\* directories below it; the order among siblings is arbitrary
WalkOrders(f, top) ==
    {o \in Orderings(WalkFiles(f, top)) :
        \A i, j \in 1..Len(o) : IsStrictPrefix(Front(o[j]), Front(o[i])) => j < i}

\* the mutant copies every file, whatever its suffix
IsLibraryAny(name) == TRUE
\* line 192: file.endswith(('.dll', '.so'))
IsLibrary(name) == EndsWith(name, ".dll") \/ EndsWith(name, ".so")

\* lines 189-198 over the walk order; n counts the copy2 calls made so far and
\* denyAt is the copy2 call the system refuses (0: none)
RECURSIVE CopyLibraries(_, _, _, _, _, _)
CopyLibraries(f, order, binaries_folder, dest_binaries_folder, denyAt, n) ==
    IF order = <<>> THEN Ok(f, n)
    ELSE
    LET src_file == Head(order) IN
    IF ~IsLibrary(Last(src_file))
    THEN CopyLibraries(f, Tail(order), binaries_folder, dest_binaries_folder, denyAt, n)
    ELSE
    LET dest_file == dest_binaries_folder
                        \o SubSeq(src_file, Len(binaries_folder) + 1, Len(src_file))
        dirname == Front(dest_file)
    IN
    IF ~Exists(f, dirname) /\ MakeDirsBlocked(f, dirname) THEN Raise(f, "NotADirectoryError")
    ELSE
    LET f1 == IF Exists(f, dirname) THEN f ELSE MakeDirs(f, dirname) IN
    IF n + 1 = denyAt THEN Raise(f1, "PermissionError")
    ELSE IF CopyBlocked(f1, src_file, dest_file) THEN Raise(f1, "NotADirectoryError")
    ELSE CopyLibraries(Copy2(f1, src_file, dest_file), Tail(order),
                       binaries_folder, dest_binaries_folder, denyAt, n + 1)

\* lines 201-204
CopyExecutable(f, server_exe, dest_server_exe, denyAt, n) ==
    IF IsDir(f, dest_server_exe) THEN Raise(f, "IsADirectoryError")
    ELSE
    LET f1 == IF Exists(f, dest_server_exe) THEN Remove(f, dest_server_exe) ELSE f IN
    IF n + 1 = denyAt THEN Raise(f1, "PermissionError")
    ELSE IF CopyBlocked(f1, server_exe, dest_server_exe) THEN Raise(f1, "FileNotFoundError")
    ELSE Ok(Copy2(f1, server_exe, dest_server_exe), <<>>)

update_server(f, updateinfo_folder, folder, prof, order, denyAt) ==
    LET source_folder == updateinfo_folder \o <<"server">>
        binaries_folder == source_folder \o LocationPath(prof.SERVER_BINARIES_LOCATION)
        server_exe == source_folder \o <<prof.EXEC_FILE_NAME>>
        dest_binaries_folder == folder \o LocationPath(prof.SERVER_BINARIES_LOCATION)
        libs == CopyLibraries(f, order, binaries_folder, dest_binaries_folder, denyAt, 0)
        dest_server_exe == folder \o <<prof.EXEC_FILE_NAME>>
    IN  IF libs.kind # "ok" THEN libs
        ELSE CopyExecutable(libs.fs, server_exe, dest_server_exe, denyAt, libs.val)

-----------------------------------------------------------------------------
(* log_update, lines 206-212 *)

LogLine(today_date, file) ==
    today_date \o " - Server updated with " \o file \o " | Python MTA Server Updater"

\* the mutant opens the log for writing, not for appending
log_update_truncating(f, folder, u, today_date) ==
    LET log_file == folder \o <<"updates.log">> IN
    IF WriteBlocked(f, log_file) THEN Raise(f, "IsADirectoryError")
    ELSE Ok(WriteFile(f, log_file, <<LogLine(today_date, file_from_url(u))>>), <<>>)

\* open(log_file, 'a'): the line is added after the content there is
log_update(f, folder, u, today_date) ==
    LET log_file == folder \o <<"updates.log">>
        before == IF IsFile(f, log_file) THEN f[log_file].data ELSE <<>>
    IN  IF WriteBlocked(f, log_file) THEN Raise(f, "IsADirectoryError")
        ELSE Ok(WriteFile(f, log_file,
                          Append(before, LogLine(today_date, file_from_url(u)))), <<>>)

-----------------------------------------------------------------------------
(* The script: module level, ask_for_server_folder and __main__ *)

\* lines 106-120; the folder typed is server_folder
ask_for_server_folder(f, prof, answer) ==
    IF ~Exists(f, server_folder) THEN Exit(f, 1)
    ELSE IF ~Exists(f, server_folder \o <<prof.EXEC_FILE_NAME>>) /\ answer # "yes"
         THEN Exit(f, 0)
    ELSE Ok(f, server_folder)

\* lines 230-239
choose_server_folder(f, prof, arg, answer) ==
    IF arg
    THEN IF ~Exists(f, server_folder) THEN Exit(f, 1) ELSE Ok(f, server_folder)
    ELSE ask_for_server_folder(f, prof, answer)

\* an exception at module level is not caught: the interpreter exits with 1
UncaughtExit(exc) == 1
\* lines 262-263: the handler prints the traceback and the script ends
ExceptExit(exc) == 0

Stages == <<"resolve", "folder", "listing", "prepare", "clear", "download",
            "extract", "install", "log", "destroy">>

\* the mutant handler reports the exception and lets the script go on
ContinueAfterFault(stage, out, next) ==
    /\ stagesRun' = Append(stagesRun, stage)
    /\ fs' = IF stage = "resolve" \/ stage = "listing" THEN fs ELSE out.fs
    /\ pc' = IF out.kind = "exit" THEN "halted" ELSE next
    /\ exitCode' = IF out.kind = "exit" THEN out.code
                   ELSE IF next = "halted" THEN 0 ELSE -1
    /\ fault' = out.exc
    /\ failedStage' = IF out.kind = "ok" \/ (out.kind = "exit" /\ out.code = 0)
                      THEN "" ELSE stage

\* the control flow after a call made at `stage`: a normal return goes on to
\* `next`, exit(code) ends the process with code, an exception ends it through
\* the handler of __main__ (or uncaught, at module level)
Continue(stage, out, next) ==
    /\ stagesRun' = Append(stagesRun, stage)
    /\ fs' = IF stage = "resolve" \/ stage = "listing" THEN fs ELSE out.fs
    /\ pc' = IF out.kind = "ok" THEN next ELSE "halted"
    /\ exitCode' = CASE out.kind = "ok" -> IF next = "halted" THEN 0 ELSE -1
                     [] out.kind = "exit" -> out.code
                     [] out.kind = "raise" ->
                            IF stage = "resolve" THEN UncaughtExit(out.exc)
                            ELSE ExceptExit(out.exc)
    /\ fault' = out.exc
    /\ failedStage' = IF out.kind = "ok" \/ (out.kind = "exit" /\ out.code = 0)
                      THEN "" ELSE stage

ResolvePlatform ==
    /\ pc = "resolve"
    /\ LET out == Resolve(key) IN
        /\ Continue("resolve", out, "folder")
        /\ profile' = IF out.kind = "ok" THEN out.val ELSE profile
    /\ UNCHANGED <<key, env, url, downloaded_file, hist>>

ChooseFolder ==
    /\ pc = "folder"
    /\ Continue("folder", choose_server_folder(fs, profile, env.arg, env.answer), "listing")
    /\ UNCHANGED <<key, profile, env, url, downloaded_file, hist>>

FetchExeUrl ==
    /\ pc = "listing"
    /\ LET out == fetch_exe_url(env.listing, profile.BUILD_STRING) IN
        /\ Continue("listing", out, "prepare")
        /\ url' = IF out.kind = "ok" THEN out.val ELSE url
    /\ UNCHANGED <<key, profile, env, downloaded_file, hist>>

PrepareUpdateinfoFolder ==
    /\ pc = "prepare"
    /\ Continue("prepare", prepare_updateinfo_folder(fs, server_folder), "clear")
    /\ UNCHANGED <<key, profile, env, url, downloaded_file, hist>>

updateinfo_folder == server_folder \o <<"updateinfo">>

ClearFolder ==
    /\ pc = "clear"
    /\ LET out == clear_folder(fs, updateinfo_folder) IN
        /\ Continue("clear", out, "download")
        /\ hist' = [hist EXCEPT !.cleared = out.fs]
    /\ UNCHANGED <<key, profile, env, url, downloaded_file>>

DownloadFile ==
    /\ pc = "download"
    /\ LET out == download_file(fs, url, updateinfo_folder, env.download) IN
        /\ Continue("download", out, "extract")
        /\ downloaded_file' = IF out.kind = "ok" THEN out.val ELSE downloaded_file
    /\ UNCHANGED <<key, profile, env, url, hist>>

ExtractFiles ==
    /\ pc = "extract"
    /\ \E first \in FirstListed(fs, downloaded_file, updateinfo_folder, profile) :
        Continue("extract",
                 extract_files(fs, downloaded_file, updateinfo_folder, profile,
                               key[2], env.has7z, first),
                 "install")
    /\ hist' = [hist EXCEPT !.preExtract = fs]
    /\ UNCHANGED <<key, profile, env, url, downloaded_file>>

UpdateServer ==
    /\ pc = "install"
    /\ \E order \in WalkOrders(fs, updateinfo_folder \o <<"server">>
                                    \o LocationPath(profile.SERVER_BINARIES_LOCATION)) :
        Continue("install",
                 update_server(fs, updateinfo_folder, server_folder, profile, order,
                               env.denyCopyAt),
                 "log")
    /\ hist' = [hist EXCEPT !.preInstall = fs]
    /\ UNCHANGED <<key, profile, env, url, downloaded_file>>

LogUpdate ==
    /\ pc = "log"
    /\ Continue("log", log_update(fs, server_folder, url, env.now), "destroy")
    /\ hist' = [hist EXCEPT !.preLog = fs]
    /\ UNCHANGED <<key, profile, env, url, downloaded_file>>

\* delete_folder, then the script ends normally
DeleteFolder ==
    /\ pc = "destroy"
    /\ Continue("destroy", delete_folder(fs, updateinfo_folder), "halted")
    /\ UNCHANGED <<key, profile, env, url, downloaded_file, hist>>

Next ==
    \/ ResolvePlatform
    \/ ChooseFolder
    \/ FetchExeUrl
    \/ PrepareUpdateinfoFolder
    \/ ClearFolder
    \/ DownloadFile
    \/ ExtractFiles
    \/ UpdateServer
    \/ LogUpdate
    \/ DeleteFolder

-----------------------------------------------------------------------------
(* Inputs of a run: the host, the server folder as found, the remote side *)

\* names used to lay out the folder of a host (the unsupported host has no
\* executable name: its folder holds another host's files)
HostProfile(k) ==
    IF k \in DOMAIN EXEC_FILE_NAMES
    THEN [BUILD_STRING |-> BUILD_STRINGS[k],
          EXEC_FILE_NAME |-> EXEC_FILE_NAMES[k],
          SERVER_BINARIES_LOCATION |-> SERVER_BINARIES_LOCATIONS[k]]
    ELSE [BUILD_STRING |-> "", EXEC_FILE_NAME |-> "MTA Server.exe",
          SERVER_BINARIES_LOCATION |-> "./"]

OldLog == [i \in 1..MaxLogLines |->
              LogLine("2024-01-0" \o Digits[i] \o " 08:00:00", "old-linux.tar.gz")]

\* an installed server: executable, one library, configuration, update log
InstalledFiles(prof) ==
    LET lib == LocationPath(prof.SERVER_BINARIES_LOCATION) IN
    <<prof.EXEC_FILE_NAME>> :> <<"old executable">>
    @@ (lib \o <<"a.so">>) :> <<"old a.so">>
    @@ <<"config.xml">> :> <<"config">>
    @@ <<"updates.log">> :> OldLog

\* what an earlier run left in updateinfo/
StaleFiles(kind, prof) ==
    LET lib == <<"updateinfo", "server">> \o LocationPath(prof.SERVER_BINARIES_LOCATION) IN
    CASE kind = "staleDownload" ->
            <<"updateinfo", "old-linux.tar.gz">> :> <<"full">>
            @@ <<"updateinfo", "buildOLD", "a.so">> :> <<"stale a.so">>
      [] kind = "staleServer" ->
            (lib \o <<"sub", "b.dll">>) :> <<"stale b.dll">>
            @@ <<"updateinfo", "server", prof.EXEC_FILE_NAME>> :> <<"stale executable">>
      [] kind = "staleFlat" ->
            <<"updateinfo", "server", prof.EXEC_FILE_NAME>> :> <<"stale executable">>
      [] kind = "blocked" ->
            (LocationPath(prof.SERVER_BINARIES_LOCATION) \o <<"sub">>) :> <<"in the way">>

FolderKinds == {"missing", "fresh", "installed", "emptyStaging", "staleDownload",
                "staleServer", "staleFlat", "blocked"}

InitialFS(kind, prof) ==
    CASE kind = "missing" -> <<>>
      [] kind = "fresh" -> <<>> :> DirNode @@ TreeOf(<<"config.xml">> :> <<"config">>)
      [] kind = "installed" -> <<>> :> DirNode @@ TreeOf(InstalledFiles(prof))
      [] kind = "emptyStaging" ->
            <<>> :> DirNode @@ <<"updateinfo">> :> DirNode @@ TreeOf(InstalledFiles(prof))
      [] OTHER -> <<>> :> DirNode @@ TreeOf(InstalledFiles(prof) @@ StaleFiles(kind, prof))

\* listing documents of the nightly page for a label: another platform's
\* section first, then the label's cell and its builds table, newest first
SectionOther ==
    <<Cell("Other platform"), Table(<<Row("file", None, <<<<"other-linux.tar.gz">>>>)>>)>>
DocWith(label, name) ==
    SectionOther \o
    <<Cell(label),
      Table(<<Row("folder", None, <<>>),
              Row("file", Hidden, <<<<"old-linux.tar.gz">>>>),
              Row("file", None, <<<<name>>>>)>>)>>
DocWithoutLabel == SectionOther

\* every document of at most MaxRows rows of at most MaxLinks links each
Rows(i) ==
    {Row(c, st, [j \in 1..n |-> <<BuildHref(i, j)>>]) :
        c \in {"file", "folder"}, st \in {None, Hidden, OtherStyle}, n \in 0..MaxLinks}
RowSeqs == UNION {{rows \in [1..n -> UNION {Rows(i) : i \in 1..MaxRows}] :
                      \A i \in 1..n : rows[i] \in Rows(i)} : n \in 0..MaxRows}
AllDocs(label) ==
    {prefix \o cell \o tbl :
        prefix \in {<<>>, SectionOther},
        cell \in {<<>>, <<Cell(label)>>},
        tbl \in {<<>>} \cup {<<Table(rows)>> : rows \in RowSeqs}}

ListingOk(doc) == [error |-> FALSE, status_code |-> 200, content |-> doc]
DownloadOk(body) == [error |-> FALSE, status_code |-> 200, truncated |-> FALSE, body |-> body]

Env(listing, download) ==
    [arg |-> TRUE, answer |-> "yes", listing |-> listing, download |-> download,
     has7z |-> TRUE, denyCopyAt |-> 0, now |-> "2024-10-10 12:00:00"]

\* the runs in which everything outside the folder behaves
GoodEnvs(label) ==
    {Env(ListingOk(DocWith(label, name)), DownloadOk("full")) :
        name \in {"mtasa-linux.tar.gz", "mtasa-setup.exe"}}

\* the runs in which one input is off
OddEnvs(label) ==
    LET tar == ListingOk(DocWith(label, "mtasa-linux.tar.gz"))
        exe == ListingOk(DocWith(label, "mtasa-setup.exe"))
        ok == DownloadOk("full")
    IN  {Env(l, ok) : l \in {[tar EXCEPT !.error = TRUE],
                             [tar EXCEPT !.status_code = 404],
                             ListingOk(DocWithoutLabel),
                             ListingOk(DocWith(label, "mtasa.zip"))}}
        \cup {Env(l, d) : l \in {tar, exe},
                          d \in {[ok EXCEPT !.error = TRUE],
                                 [ok EXCEPT !.status_code = 404],
                                 [ok EXCEPT !.truncated = TRUE],
                                 DownloadOk("noexe"), DownloadOk("twodirs"),
                                 DownloadOk("corrupt")}}
        \cup {[Env(exe, ok) EXCEPT !.has7z = FALSE]}
        \cup {[Env(tar, ok) EXCEPT !.denyCopyAt = n] : n \in 1..4}
        \cup {[Env(tar, ok) EXCEPT !.arg = FALSE, !.answer = a] : a \in {"yes", "no"}}

InitWith(k, kind, e) ==
    /\ pc = "resolve"
    /\ key = k
    /\ profile = NoProfile
    /\ env = e
    /\ fs = InitialFS(kind, HostProfile(k))
    /\ url = <<>>
    /\ downloaded_file = <<>>
    /\ exitCode = -1
    /\ fault = ""
    /\ failedStage = ""
    /\ stagesRun = <<>>
    /\ hist = [start |-> fs, cleared |-> fs, preExtract |-> fs, preInstall |-> fs,
               preLog |-> fs]

Init ==
    \E k \in Keys :
        \/ \E kind \in FolderKinds, e \in GoodEnvs(BUILD_STRINGS[k]) : InitWith(k, kind, e)
        \/ \E kind \in {"missing", "fresh", "installed", "staleServer"},
              e \in OddEnvs(BUILD_STRINGS[k]) : InitWith(k, kind, e)

Spec == Init /\ [][Next]_vars

\* every listing document, on one host with an installed server
ListingKey == <<"x86", "Linux", "64">>
InitListing ==
    \E doc \in AllDocs(BUILD_STRINGS[ListingKey]) :
        InitWith(ListingKey, "installed", Env(ListingOk(doc), DownloadOk("full")))

SpecListing == InitListing /\ [][Next]_vars

-----------------------------------------------------------------------------
(* Vocabulary of the properties *)

Halted == pc = "halted"
Ran(stage) == stage \in Range(stagesRun)
FullSuccess == Halted /\ failedStage = "" /\ stagesRun = Stages
LogLines(f) == IF IsFile(f, <<"updates.log">>) THEN f[<<"updates.log">>].data ELSE <<>>
ExePath == <<profile.EXEC_FILE_NAME>>
Unsupported == <<"arm", "Windows", "32">>

\* the part of a filesystem outside the staging directory
OutsideStaging(f) ==
    [q \in {r \in DOMAIN f : ~IsPrefix(updateinfo_folder, r)} |-> f[q]]

-----------------------------------------------------------------------------
(* Properties *)

\* C1: after a run in which every stage succeeded, updates.log holds the lines
\* it held before the run followed by exactly one new line of the fixed format,
\* and the staging directory does not exist; after a run that failed in the
\* extract stage, the staging directory exists and updates.log is as before.
C1_LogAndStagingAfterRun ==
    /\ FullSuccess =>
          /\ LogLines(fs) = Append(LogLines(hist.start),
                                   LogLine(env.now, file_from_url(url)))
          /\ ~Exists(fs, updateinfo_folder)
    /\ (Halted /\ failedStage = "extract") =>
          /\ IsDir(fs, updateinfo_folder)
          /\ LogLines(fs) = LogLines(hist.start)
          /\ IsFile(fs, <<"updates.log">>) = IsFile(hist.start, <<"updates.log">>)

\* C1 witness: a fully successful run on a folder whose log already had lines
C1_Witness ==
    FullSuccess /\ Len(LogLines(hist.start)) >= 1 /\ Exists(hist.preLog, updateinfo_folder)

\* C2: every run that ends because a stage failed ends with a non-zero exit code.
C2_FailureExitsNonZero ==
    (Halted /\ failedStage # "") => exitCode # 0

\* C3: a failure ends the run at once: the stages entered are an initial part
\* of the pipeline, each entered once, and the failed stage is the last one;
\* a failure in listing, download or extraction leaves everything outside the
\* staging directory (executable, libraries, updates.log) as it was at the
\* start; a failure in install leaves updates.log as it was and the staging
\* directory in place.
C3_FailureAbortsRun ==
    /\ IsPrefix(stagesRun, Stages)
    /\ failedStage # "" => (Halted /\ Last(stagesRun) = failedStage)
    /\ (Halted /\ failedStage \in {"listing", "download", "extract"}) =>
          OutsideStaging(fs) = OutsideStaging(hist.start)
    /\ (Halted /\ failedStage = "install") =>
          /\ LogLines(fs) = LogLines(hist.start)
          /\ IsDir(fs, updateinfo_folder)

\* C3 witness: a run that failed in the download stage on an installed server
C3_Witness ==
    Halted /\ failedStage = "download" /\ IsFile(hist.start, ExePath)
    /\ stagesRun = SubSeq(Stages, 1, 6)


\* what the install is meant to read and write, on the filesystem `pre`
StagedServer == updateinfo_folder \o <<"server">>
StagedLibraryRoot == StagedServer \o LocationPath(profile.SERVER_BINARIES_LOCATION)
StagedLibraries(pre) ==
    {q \in DOMAIN pre :
        /\ IsFile(pre, q)
        /\ IsStrictPrefix(StagedLibraryRoot, q)
        /\ (EndsWith(Last(q), ".dll") \/ EndsWith(Last(q), ".so"))}
Mirrored(q) ==
    LocationPath(profile.SERVER_BINARIES_LOCATION)
        \o SubSeq(q, Len(StagedLibraryRoot) + 1, Len(q))

\* C4: a completed install leaves <targetDir>/<executableName> with the content
\* of the staged executable and, for every staged file below
\* server/<libraryRelativePath> named *.dll or *.so, the mirrored path below
\* <targetDir>/<libraryRelativePath> with that file's content; the only other
\* new paths are the directories leading to those files; every other path that
\* existed before the install exists afterwards with unchanged content.  When
\* the install fails, the paths other than the executable and the mirrored
\* libraries are likewise unchanged.
C4_InstallFrame ==
    LET pre == hist.preInstall
        libs == StagedLibraries(pre)
        mirrors == {Mirrored(q) : q \in libs}
        written == mirrors \cup {ExePath}
    IN  /\ pc = "log" =>
              /\ IsFile(fs, ExePath) /\ fs[ExePath].data = pre[StagedServer \o ExePath].data
              /\ \A q \in libs : IsFile(fs, Mirrored(q)) /\ fs[Mirrored(q)].data = pre[q].data
              /\ \A p \in DOMAIN pre \ written : p \in DOMAIN fs /\ fs[p] = pre[p]
              /\ \A p \in DOMAIN fs \ (DOMAIN pre \cup written) :
                    IsDir(fs, p) /\ \E m \in mirrors : IsStrictPrefix(p, m)
        /\ (Halted /\ failedStage = "install") =>
              \A p \in DOMAIN pre \ written : p \in DOMAIN fs /\ fs[p] = pre[p]

\* C4 witness: a completed install, on a host whose library path is './', over
\* an older executable and an older a.so, next to config.xml, with staged files
\* that are not libraries
C4_Witness ==
    /\ pc = "log"
    /\ profile.SERVER_BINARIES_LOCATION = "./"
    /\ IsFile(hist.preInstall, ExePath) /\ hist.preInstall[ExePath].data = <<"old executable">>
    /\ fs[ExePath].data = <<"new executable">>
    /\ hist.preInstall[<<"a.so">>].data = <<"old a.so">> /\ fs[<<"a.so">>].data = <<"new a.so">>
    /\ fs[<<"mods", "c.so">>].data = <<"new c.so">>
    /\ fs[<<"config.xml">>].data = <<"config">>
    /\ IsFile(fs, StagedServer \o <<"notes.txt">>) /\ ~Exists(fs, <<"notes.txt">>)

\* C5: in a run that starts with an absent or empty staging directory, after
\* the tarball variant of extract has returned for an archive with exactly one
\* top-level directory, <staging>/server holds exactly the content of that
\* directory and no entry of the archive's directory name remains, whichever
\* entry the directory listing returns first.
C5_TarballBecomesServer ==
    (/\ pc = "install"
     /\ EndsWith(Last(downloaded_file), ".tar.gz")
     /\ env.download.body # "twodirs"
     /\ ListDir(hist.cleared, updateinfo_folder) = {})
    => LET tree == ArchiveTree(Last(downloaded_file), env.download.body, profile)
           top == CHOOSE d \in {q[1] : q \in DOMAIN tree} : TRUE
       IN  /\ ~Exists(fs, updateinfo_folder \o <<top>>)
           /\ \A q \in DOMAIN tree : Exists(fs, StagedServer \o Tail(q))
                                     /\ fs[StagedServer \o Tail(q)] = tree[q]
           /\ Cardinality(Subtree(fs, StagedServer)) = Cardinality(DOMAIN tree)

\* C6: after the clear step the staging directory holds no entry of an earlier
\* run for the later stages to pick up.
C6_ClearDiscardsStale ==
    pc = "download" => ListDir(fs, updateinfo_folder) = {}

\* the listing whose response the run received
ListedDoc == env.listing.content
NotHidden(r) == r.class = "file" /\ r.style # Hidden

\* C7: when the document has a cell with the label, the table after it has a
\* 'file' row that does not carry the 'do not display' style, and the first
\* such row has a link, the listing stage returns the address of the first link
\* of that row.
C7_FirstVisibleRow ==
    (/\ Ran("listing")
     /\ ~env.listing.error /\ env.listing.status_code = 200)
    => LET td == FindTd(ListedDoc, profile.BUILD_STRING)
           table == IF td = 0 THEN 0 ELSE FindNextTable(ListedDoc, td)
           tr == IF table = 0 THEN 0 ELSE FirstIndex([i \in 1..Len(ListedDoc[table].rows) |->
                                       NotHidden(ListedDoc[table].rows[i])])
       IN  (tr # 0 /\ ListedDoc[table].rows[tr].links # <<>>
                   /\ ListedDoc[table].rows[tr].links[1] # NoHref)
           => /\ failedStage # "listing"
              /\ url = StrCat(nightly_url, ListedDoc[table].rows[tr].links[1])

\* the document lacks the cell, the table after it, a row the resolver accepts
\* in that table, or a link in that row
LacksElement(doc, label) ==
    LET td == FindTd(doc, label)
        table == IF td = 0 THEN 0 ELSE FindNextTable(doc, td)
        tr == IF table = 0 THEN 0 ELSE FindTr(doc[table].rows)
    IN  tr = 0 \/ doc[table].rows[tr].links = <<>>

\* C8: when the listing document lacks a required element, the listing stage
\* ends the run in one outcome, whichever element is missing, without raising
\* an exception; it returns no URL, and no download is started.
C8_SingleNotFound ==
    (/\ Ran("listing")
     /\ ~env.listing.error /\ env.listing.status_code = 200
     /\ LacksElement(ListedDoc, profile.BUILD_STRING))
    => /\ Halted /\ stagesRun = SubSeq(Stages, 1, 3)
       /\ fault = "SystemExit"
       /\ url = <<>>
       /\ ~Ran("download")

\* C9: platform resolution either yields a complete profile (non-empty label,
\* executable name and library path) or ends the process with exit code 1
\* without a lookup fault; it ends the process exactly for arm+Windows+32; and
\* the executable-name and library-path tables have an entry exactly for the
\* keys whose artifact label is defined.
C9_PlatformResolution ==
    /\ \A k \in Keys :
          /\ (BUILD_STRINGS[k] # "") = (k \in DOMAIN EXEC_FILE_NAMES)
          /\ (BUILD_STRINGS[k] # "") = (k \in DOMAIN SERVER_BINARIES_LOCATIONS)
          /\ (BUILD_STRINGS[k] = "") = (k = Unsupported)
    /\ Ran("resolve") =>
          IF key = Unsupported
          THEN Halted /\ exitCode = 1 /\ fault = "SystemExit" /\ stagesRun = <<"resolve">>
          ELSE /\ failedStage # "resolve"
               /\ profile.BUILD_STRING # ""
               /\ profile.EXEC_FILE_NAME # ""
               /\ profile.SERVER_BINARIES_LOCATION # ""
               /\ profile = HostProfile(key)

\* C9 witness: the unsupported host, after resolution ended the process
C9_Witness ==
    key = Unsupported /\ Halted /\ exitCode = 1 /\ stagesRun = <<"resolve">>

\* C10: at the end of every run, a target folder that held the executable
\* before the run still holds a file at that path.
C10_ExecutableSurvives ==
    (Halted /\ Ran("resolve") /\ key # Unsupported /\ IsFile(hist.start, ExePath))
    => IsFile(fs, ExePath)

====
